---------------------------- MODULE Spec2Model ----------------------------
(* Model of src/script.js, the Inflation Impact Calculator: the form, the  *)
(* debounced input and resize listeners, the calculateAndDisplay cycle,    *)
(* the projection engine and the two canvas chart renderers.  The ad       *)
(* toggles (supportBtn, closeBottomAd) share no state with the rest and    *)
(* are left out.                                                           *)
EXTENDS Integers, Sequences, FiniteSets, TLC

(***************************************************************************)
(* JavaScript numbers.  A number is a record [n, d]: the fraction n/d in   *)
(* lowest terms when d > 0, and a non-finite value when d = 0 (0/0 is NaN, *)
(* 1/0 is Infinity, -1/0 is -Infinity).  Arithmetic is exact on the finite *)
(* values; the sign of zero is not kept.                                   *)
(***************************************************************************)
RECURSIVE GCD(_, _)
GCD(a, b) == IF b = 0 THEN a ELSE GCD(b, a % b)

Abs(a) == IF a < 0 THEN -a ELSE a

Sign(a) == IF a > 0 THEN 1 ELSE IF a < 0 THEN -1 ELSE 0

Norm(n, d) ==
    IF d = 0 THEN [n |-> Sign(n), d |-> 0]
    ELSE LET g == GCD(Abs(n), Abs(d))
             s == Sign(d)
         IN  [n |-> (s * n) \div g, d |-> (s * d) \div g]

Num(i) == [n |-> i, d |-> 1]

NaN == [n |-> 0, d |-> 0]

Infinity == [n |-> 1, d |-> 0]

IsNaN(x) == x.d = 0 /\ x.n = 0

IsFinite(x) == x.d > 0

IsInteger(x) == x.d = 1

IsZero(x) == x.d > 0 /\ x.n = 0

\* the product, the common factors taken out before the multiplication
Mul(x, y) ==
    LET g1 == GCD(Abs(x.n), Abs(y.d))
        g2 == GCD(Abs(y.n), Abs(x.d))
        h1 == IF g1 = 0 THEN 1 ELSE g1
        h2 == IF g2 = 0 THEN 1 ELSE g2
    IN  Norm((x.n \div h1) * (y.n \div h2), (x.d \div h2) * (y.d \div h1))

Recip(x) == IF x.n < 0 THEN [n |-> -x.d, d |-> -x.n] ELSE [n |-> x.d, d |-> x.n]

Div(x, y) == Mul(x, Recip(y))

Add(x, y) ==
    IF x.d > 0 /\ y.d > 0 THEN Norm(x.n * y.d + y.n * x.d, x.d * y.d)
    ELSE IF IsNaN(x) \/ IsNaN(y) THEN NaN
    ELSE IF x.d = 0 /\ y.d = 0 THEN (IF x.n = y.n THEN x ELSE NaN)
    ELSE IF x.d = 0 THEN x ELSE y

Neg(x) == [n |-> -x.n, d |-> x.d]

Sub(x, y) == Add(x, Neg(y))

\* x < y, x >= y and x === y of the language: every comparison with NaN is false
Lt(x, y) ==
    /\ ~IsNaN(x) /\ ~IsNaN(y)
    /\ IF x.d > 0 /\ y.d > 0 THEN x.n * y.d < y.n * x.d
       ELSE IF x.d = 0 /\ y.d = 0 THEN x.n < y.n
       ELSE IF x.d = 0 THEN x.n < 0 ELSE y.n > 0

Gt(x, y) == Lt(y, x)

StrictEq(x, y) == ~IsNaN(x) /\ ~IsNaN(y) /\ x = y

Ge(x, y) == Gt(x, y) \/ StrictEq(x, y)

\* Math.pow(x, i) for an integer i >= 0
RECURSIVE Pow(_, _)
Pow(x, i) == IF i <= 0 THEN Num(1) ELSE Mul(x, Pow(x, i - 1))

\* Math.round: the nearest integer, a tie going up
MathRound(x) ==
    IF x.d = 0 THEN x
    ELSE Num((x.n \div x.d) + (IF 2 * (x.n % x.d) >= x.d THEN 1 ELSE 0))

\* the nearest integer to |n| * scale / d, a tie going away from zero
RoundHalfAway(n, d, scale) ==
    Sign(n) * (scale * (Abs(n) \div d)
                 + (2 * scale * (Abs(n) % d) + d) \div (2 * d))

\* Math.max(...xs): -Infinity of no argument, NaN if any argument is NaN
RECURSIVE MathMax(_)
MathMax(xs) ==
    IF xs = << >> THEN Neg(Infinity)
    ELSE LET h == Head(xs)
             m == MathMax(Tail(xs))
         IN  IF IsNaN(h) \/ IsNaN(m) THEN NaN ELSE IF Lt(m, h) THEN h ELSE m

\* Number.prototype.toFixed(1): the nearest tenth, a tie away from zero
toFixed1(x) ==
    IF x.d = 0 THEN x
    ELSE Norm(RoundHalfAway(x.n, x.d, 10), 10)

\* a[i] of a JavaScript array a (index from 0); undefined, here NaN, outside it
At(a, i) == IF i >= 0 /\ i < Len(a) THEN a[i + 1] ELSE NaN

\* x || dflt for a number x: 0 and NaN are falsy
OrElse(x, dflt) == IF IsNaN(x) \/ IsZero(x) THEN dflt ELSE x

(***************************************************************************)
(* The projection engine.                                                  *)
(***************************************************************************)
Label(i) == IF i = 0 THEN [text |-> "Now", num |-> 0] ELSE [text |-> "Year", num |-> i]

\* currentNominalIncome after iteration i of the loop
RECURSIVE currentNominalIncome(_, _)
currentNominalIncome(data, i) ==
    IF i <= 0 THEN Mul(data.monthlyIncome, Num(12))
    ELSE Mul(currentNominalIncome(data, i - 1),
             Add(Num(1), Div(data.incomeGrowth, Num(100))))

realIncomeVal(data, i) ==
    Div(currentNominalIncome(data, i),
        Pow(Add(Num(1), Div(data.inflationRate, Num(100))), i))

\* the savings deflated by the income growth rate instead of the inflation rate
realSavingsValByGrowth(data, i) ==
    Div(data.currentSavings,
        Pow(Add(Num(1), Div(data.incomeGrowth, Num(100))), i))

\* the savings compounded by inflation instead of deflated by it
realSavingsValCompounded(data, i) ==
    Mul(data.currentSavings,
        Pow(Add(Num(1), Div(data.inflationRate, Num(100))), i))

realSavingsVal(data, i) ==
    Div(data.currentSavings,
        Pow(Add(Num(1), Div(data.inflationRate, Num(100))), i))

\* the loop stopping at i < data.years
IterationsExclusive(data) == IF data.years >= 0 THEN data.years ELSE 0

\* the number of iterations of the loop: i = 0 .. data.years
Iterations(data) == IF data.years >= 0 THEN data.years + 1 ELSE 0

calculateProjections(data) ==
    LET n == Iterations(data)
        nominalIncome == [k \in 1..n |-> MathRound(currentNominalIncome(data, k - 1))]
        realIncome    == [k \in 1..n |-> MathRound(realIncomeVal(data, k - 1))]
        realSavings   == [k \in 1..n |-> MathRound(realSavingsVal(data, k - 1))]
    IN  [years |-> [k \in 1..n |-> Label(k - 1)],
         nominalIncome |-> nominalIncome,
         realIncome |-> realIncome,
         realSavings |-> realSavings,
         purchasingPowerChange |->
             Mul(Div(Sub(At(realIncome, data.years), At(realIncome, 0)),
                     At(realIncome, 0)), Num(100)),
         totalPurchasingPowerLoss |->
             Sub(Num(100),
                 Div(Num(100),
                     Pow(Add(Num(1), Div(data.inflationRate, Num(100))), data.years))),
         finalRealSavings |-> At(realSavings, data.years)]

(***************************************************************************)
(* Formatting utilities.                                                   *)
(***************************************************************************)
\* Intl.NumberFormat(..., maximumFractionDigits: 0): the nearest integer, a
\* tie away from zero, under the currency; NaN and the infinities print as such
formatCurrency(num) ==
    [currency |-> "USD",
     amount |-> IF num.d = 0 THEN num ELSE Num(RoundHalfAway(num.n, num.d, 1))]

toFixed0(x) ==
    IF x.d = 0 THEN x ELSE Num(RoundHalfAway(x.n, x.d, 1))

formatK(num) ==
    IF Ge(num, Num(1000000)) THEN [value |-> toFixed1(Div(num, Num(1000000))), suffix |-> "M"]
    ELSE IF Ge(num, Num(1000)) THEN [value |-> toFixed0(Div(num, Num(1000))), suffix |-> "k"]
    ELSE [value |-> num, suffix |-> ""]

(***************************************************************************)
(* The DOM writers of one calculateAndDisplay cycle.                       *)
(***************************************************************************)
updateMetrics(results, data) ==
    LET annualIncome == Mul(data.monthlyIncome, Num(12))
        ppChangeVal  == results.purchasingPowerChange
    IN  [currentAnnualIncome |-> formatCurrency(annualIncome),
         futureNominalIncome |-> formatCurrency(At(results.nominalIncome, data.years)),
         futureRealIncome |-> formatCurrency(At(results.realIncome, data.years)),
         purchasingPowerChange |->
             [sign |-> IF Ge(ppChangeVal, Num(0)) THEN "+" ELSE "",
              percent |-> toFixed1(ppChangeVal)],
         purchasingPowerClass |-> IF Ge(ppChangeVal, Num(0)) THEN "positive" ELSE "negative",
         currentSavingsDisplay |-> formatCurrency(data.currentSavings),
         realSavingsValue |-> formatCurrency(results.finalRealSavings)]

\* the winning branch taken on growth >= inflation
updateInsightsGe(results, data) ==
    LET lossPercent == toFixed1(results.totalPurchasingPowerLoss)
    IN  IF StrictEq(data.inflationRate, Num(0))
        THEN [className |-> "success", message |-> "Great News", args |-> << >>]
        ELSE IF Ge(data.incomeGrowth, data.inflationRate)
        THEN [className |-> "success", message |-> "You're Winning",
              args |-> <<data.incomeGrowth, data.inflationRate>>]
        ELSE IF StrictEq(data.incomeGrowth, data.inflationRate)
        THEN [className |-> "warning", message |-> "Treading Water", args |-> << >>]
        ELSE [className |-> "danger", message |-> "Purchasing Power Loss",
              args |-> <<Num(data.years), lossPercent>>]

updateInsights(results, data) ==
    LET lossPercent == toFixed1(results.totalPurchasingPowerLoss)
    IN  IF StrictEq(data.inflationRate, Num(0))
        THEN [className |-> "success", message |-> "Great News", args |-> << >>]
        ELSE IF Gt(data.incomeGrowth, data.inflationRate)
        THEN [className |-> "success", message |-> "You're Winning",
              args |-> <<data.incomeGrowth, data.inflationRate>>]
        ELSE IF StrictEq(data.incomeGrowth, data.inflationRate)
        THEN [className |-> "warning", message |-> "Treading Water", args |-> << >>]
        ELSE [className |-> "danger", message |-> "Purchasing Power Loss",
              args |-> <<Num(data.years), lossPercent>>]

updateComparisonTable(results) ==
    [k \in 1..Len(results.years) |->
        [year |-> results.years[k],
         nominalIncome |-> formatCurrency(At(results.nominalIncome, k - 1)),
         realIncome |-> formatCurrency(At(results.realIncome, k - 1)),
         realSavings |-> formatCurrency(At(results.realSavings, k - 1)),
         ppDivisor |-> At(results.realSavings, 0),
         pp |-> toFixed1(Mul(Num(100),
                             Div(At(results.realSavings, k - 1),
                                 At(results.realSavings, 0))))]]

(***************************************************************************)
(* The canvas chart renderers.  A rendering is the list of coordinates     *)
(* handed to the drawing context, with the two divisors of its mappers.    *)
(***************************************************************************)
canvasWidth == 300

canvasHeight == 150

padding == 40

minValue == Num(0)

\* the value-to-pixel mapper shared by the two renderers
mapY(val, maxValue) ==
    Sub(Sub(Num(canvasHeight), Num(padding)),
        Mul(Div(Sub(val, minValue), Sub(maxValue, minValue)),
            Num(canvasHeight - 2 * padding)))

\* the five grid lines: their pixel row and their label
gridLines(maxValue) ==
    [k \in 1..6 |->
        LET val == Add(minValue, Mul(Sub(maxValue, minValue), Norm(k - 1, 5)))
        IN  [y |-> mapY(val, maxValue), label |-> formatK(val)]]

incomeMapX(index, labels) ==
    Add(Num(padding),
        Div(Mul(Num(index), Num(canvasWidth - 2 * padding)), Num(Len(labels) - 1)))

drawLine(data, labels, maxValue) ==
    [k \in 1..Len(data) |->
        [x |-> incomeMapX(k - 1, labels), y |-> mapY(data[k], maxValue)]]

renderIncomeChart(labels, nominalData, realData) ==
    LET maxValue == Mul(MathMax(nominalData \o realData), Norm(11, 10))
    IN  [mapXDivisor |-> Num(Len(labels) - 1),
         mapYDivisor |-> Sub(maxValue, minValue),
         grid |-> gridLines(maxValue),
         nominal |-> drawLine(nominalData, labels, maxValue),
         real |-> drawLine(realData, labels, maxValue)]

savingsMapX(index, data) ==
    Add(Num(padding),
        Div(Mul(Num(index), Num(canvasWidth - 2 * padding)), Num(Len(data))))

renderSavingsChart(labels, data) ==
    LET maxValue == Mul(MathMax(data), Norm(11, 10))
        slot     == Div(Num(canvasWidth - 2 * padding), Num(Len(data)))
        barWidth == Mul(slot, Norm(3, 5))
    IN  [mapXDivisor |-> Num(Len(data)),
         mapYDivisor |-> Sub(maxValue, minValue),
         grid |-> gridLines(maxValue),
         bars |-> [k \in 1..Len(data) |->
                     LET y == mapY(data[k], maxValue)
                     IN  [x |-> Add(savingsMapX(k - 1, data),
                                    Div(Sub(slot, barWidth), Num(2))),
                          y |-> y,
                          w |-> barWidth,
                          h |-> Sub(Sub(Num(canvasHeight), Num(padding)), y),
                          labelled |-> ~(Len(data) > 10 /\ (k - 1) % 2 # 0)]]]

\* what lines 75-94 of calculateAndDisplay put on the page for the data read
displayCycle(data) ==
    LET results == calculateProjections(data)
    IN  [data |-> data,
         results |-> results,
         metrics |-> updateMetrics(results, data),
         insights |-> updateInsights(results, data),
         table |-> updateComparisonTable(results),
         incomeChart |-> renderIncomeChart(results.years, results.nominalIncome,
                                           results.realIncome),
         savingsChart |-> renderSavingsChart(results.years, results.realSavings)]

(***************************************************************************)
(* The page: the form, the results section, the timers of the debounced    *)
(* listeners, and what the last cycle displayed.                           *)
(***************************************************************************)
VARIABLES
    form,            \* the value of each input of calculatorForm
    resultsDisplay,  \* resultsSection.style.display
    engineCall,      \* << >>, or <<the last call of calculateProjections>>
    timers,          \* the pending timers of the window: [id, target, left]
    timeout,         \* the variable timeout of each debounce closure (0: undefined)
    nextId,          \* the id the next setTimeout returns
    cleared,         \* how many pending timers clearTimeout has cancelled
    runs,            \* per listener: runs of its callback since its last event
    calls,           \* per event kind: calls of calculateAndDisplay by its callbacks since the last event of the kind
    lastOp,          \* the handler that ran last
    cycled,          \* whether the handler that ran last completed a full cycle
    input,           \* the data handed to the engine when it is exercised alone
    output,          \* << >>, or <<what the engine and the writers made of input>>
    series,          \* the series handed to a renderer when it is exercised alone
    chart            \* << >>, or <<the rendering of series>>

vars == <<form, resultsDisplay, engineCall, timers, timeout, nextId, cleared, runs,
          calls, lastOp, cycled, input, output, series, chart>>

Fields == {"monthlyIncome", "currentSavings", "inflationRate", "incomeGrowth", "timePeriod"}

Targets == Fields \cup {"window"}

Kind(t) == IF t = "window" THEN "resize" ELSE "input"

\* the debounce delays, 500 ms and 200 ms, in ticks of 100 ms
InputWait == 5

ResizeWait == 2

Wait(t) == IF t = "window" THEN ResizeWait ELSE InputWait

MaxEvents == 2

\* the value of a number input: the empty string, or the text of a number
Empty == [empty |-> TRUE, num |-> Num(0)]

Text(x) == [empty |-> FALSE, num |-> x]

parseFloat(v) == IF v.empty THEN NaN ELSE v.num

\* parseInt stops at the decimal point: the integer part
parseInt(v) ==
    IF v.empty THEN NaN ELSE Num(Sign(v.num.n) * (Abs(v.num.n) \div v.num.d))

getFormData ==
    [monthlyIncome |-> OrElse(parseFloat(form["monthlyIncome"]), Num(0)),
     currentSavings |-> OrElse(parseFloat(form["currentSavings"]), Num(0)),
     inflationRate |-> OrElse(parseFloat(form["inflationRate"]), Num(0)),
     incomeGrowth |-> OrElse(parseFloat(form["incomeGrowth"]), Num(0)),
     years |-> OrElse(parseInt(form["timePeriod"]), Num(10)).n]

MaxTimePeriod == 50

\* the constraint validation of the form: income and savings not negative,
\* the rates of any sign, the time period a whole number from 1 to 50; a
\* field left empty is no violation
checkValidity ==
    /\ \A f \in {"monthlyIncome", "currentSavings"} :
          form[f].empty \/ Ge(form[f].num, Num(0))
    /\ \/ form["timePeriod"].empty
       \/ /\ IsInteger(form["timePeriod"].num)
          /\ Ge(form["timePeriod"].num, Num(1))
          /\ Ge(Num(MaxTimePeriod), form["timePeriod"].num)

validateInputs == checkValidity

\* calculateAndDisplay without its early return
calculateAndDisplayUnchecked ==
    /\ engineCall' = <<[data |-> getFormData, checked |-> validateInputs]>>
    /\ resultsDisplay' = "block"
    /\ cycled' = TRUE

\* calculateAndDisplay, as called by a handler
calculateAndDisplay ==
    IF ~validateInputs
    THEN /\ cycled' = FALSE
         /\ UNCHANGED <<engineCall, resultsDisplay>>
    ELSE /\ engineCall' = <<[data |-> getFormData, checked |-> validateInputs]>>
         /\ resultsDisplay' = "block"
         /\ cycled' = TRUE

\* the page: << >> before the first cycle, then <<what the last call of the
\* engine and the writers and renderers that follow it displayed>>
page == IF engineCall = << >> THEN << >> ELSE <<displayCycle(engineCall[1].data)>>

\* the form's submit listener
Submit ==
    /\ calculateAndDisplay
    /\ lastOp' = [op |-> "submit", target |-> "form"]
    /\ UNCHANGED <<form, timers, timeout, nextId, cleared, runs, calls, input, output, series, chart>>

\* executedFunction without its clearTimeout
executedFunctionNoClear(t) ==
    /\ nextId <= MaxEvents
    /\ timers' = timers \cup {[id |-> nextId, target |-> t, left |-> Wait(t)]}
    /\ timeout' = [timeout EXCEPT ![t] = nextId]
    /\ nextId' = nextId + 1
    /\ cleared' = cleared

\* executedFunction of the closure debounce returned for listener t
executedFunction(t) ==
    /\ nextId <= MaxEvents
    /\ timers' = {x \in timers : x.id # timeout[t]}
                    \cup {[id |-> nextId, target |-> t, left |-> Wait(t)]}
    /\ timeout' = [timeout EXCEPT ![t] = nextId]
    /\ nextId' = nextId + 1
    /\ cleared' = cleared + Cardinality({x \in timers : x.id = timeout[t]})

\* the values a user is seen to type into each input
InputValues ==
    [f \in Fields |->
        IF f = "monthlyIncome" THEN {Text(Num(-1))}
        ELSE IF f = "currentSavings" THEN {Text(Num(1))}
        ELSE IF f = "timePeriod" THEN {Text(Num(2)), Text(Num(0))}
        ELSE {Text(Num(100))}]

\* an 'input' event on field f, whose value has become v
InputEvent(f, v) ==
    /\ form' = [form EXCEPT ![f] = v]
    /\ executedFunction(f)
    /\ runs' = [runs EXCEPT ![f] = 0]
    /\ calls' = [calls EXCEPT !["input"] = 0]
    /\ lastOp' = [op |-> "event", target |-> f]
    /\ cycled' = FALSE
    /\ UNCHANGED <<resultsDisplay, engineCall, input, output, series, chart>>

\* a 'resize' event on the window
ResizeEvent ==
    /\ executedFunction("window")
    /\ runs' = [runs EXCEPT !["window"] = 0]
    /\ calls' = [calls EXCEPT !["resize"] = 0]
    /\ lastOp' = [op |-> "event", target |-> "window"]
    /\ cycled' = FALSE
    /\ UNCHANGED <<form, resultsDisplay, engineCall, input, output, series, chart>>

\* the resize callback redrawing only a section already set to 'block'
callbackGuardBlock(t) ==
    IF t = "window" THEN resultsDisplay = "block" ELSE checkValidity

\* the guard of the callback handed to debounce for listener t
callbackGuard(t) ==
    IF t = "window" THEN resultsDisplay # "none" ELSE checkValidity

\* later: timer tm of the window has expired
later(tm) ==
    /\ tm \in timers
    /\ tm.left = 0
    /\ timers' = {x \in timers : x # tm /\ x.id # timeout[tm.target]}
    /\ runs' = [runs EXCEPT ![tm.target] = @ + 1]
    /\ lastOp' = [op |-> "callback", target |-> tm.target]
    /\ IF callbackGuard(tm.target)
       THEN /\ calculateAndDisplay
            /\ calls' = [calls EXCEPT ![Kind(tm.target)] = @ + 1]
       ELSE /\ cycled' = FALSE
            /\ UNCHANGED <<engineCall, resultsDisplay, calls>>
    /\ UNCHANGED <<form, timeout, nextId, cleared, input, output, series, chart>>

\* 100 ms pass with no timer due
Tick ==
    /\ timers # {}
    /\ \A x \in timers : x.left > 0
    /\ timers' = {[x EXCEPT !.left = @ - 1] : x \in timers}
    /\ UNCHANGED <<form, resultsDisplay, engineCall, timeout, nextId, cleared, runs,
                   calls, lastOp, cycled, input, output, series, chart>>

NoInput == [monthlyIncome |-> Num(0), currentSavings |-> Num(0),
            inflationRate |-> Num(0), incomeGrowth |-> Num(0), years |-> 1]

NoSeries == [labels |-> << >>, nominalData |-> << >>, realData |-> << >>]

\* the page as the document has loaded it: nothing typed, no timer set, the
\* results section without an inline display or hidden by one
InitPage ==
    /\ form = [f \in Fields |-> Empty]
    /\ resultsDisplay \in {"", "none"}
    /\ engineCall = << >>
    /\ timers = {}
    /\ timeout = [t \in Targets |-> 0]
    /\ nextId = 1
    /\ cleared = 0
    /\ runs = [t \in Targets |-> 0]
    /\ calls = [k \in {"input", "resize"} |-> 0]
    /\ lastOp = [op |-> "load", target |-> "document"]
    /\ cycled = FALSE
    /\ output = << >>
    /\ chart = << >>

Init ==
    /\ InitPage
    /\ input = NoInput
    /\ series = NoSeries

Next ==
    \/ Submit
    \/ \E f \in Fields : \E v \in InputValues[f] : InputEvent(f, v)
    \/ ResizeEvent
    \/ \E tm \in timers : later(tm)
    \/ Tick

Spec == Init /\ [][Next]_vars

\* the window lets time pass and runs every timer that is due
LiveSpec == Spec /\ WF_vars(Tick) /\ WF_vars(\E tm \in timers : later(tm))

(***************************************************************************)
(* The engine with the writers and renderers that follow it, exercised on  *)
(* every valid input of a bounded set.                                     *)
(***************************************************************************)
MaxIncomeHalves == 3

MaxSavingsHalves == 3

MaxYears == 2

\* annual rates in percent
RateValues == {Num(-200), Num(-100), Num(-50), Num(0), Num(3), Num(5), Num(100)}

\* the inputs the form's validation lets through: income and savings not
\* negative, here counted in halves of a currency unit, rates of any sign,
\* a whole number of years from 1
EngineInputs ==
    [monthlyIncome : {Norm(k, 2) : k \in 0..MaxIncomeHalves},
     currentSavings : {Norm(k, 2) : k \in 0..MaxSavingsHalves},
     inflationRate : RateValues,
     incomeGrowth : RateValues,
     years : 1..MaxYears]

InitEngine ==
    /\ InitPage
    /\ resultsDisplay = "none"
    /\ input \in EngineInputs
    /\ series = NoSeries

\* lines 75-94 of calculateAndDisplay on the data of input
ProjectAndDisplay ==
    /\ output = << >>
    /\ output' = <<displayCycle(input)>>
    /\ UNCHANGED <<form, resultsDisplay, engineCall, timers, timeout, nextId, cleared, runs,
                   calls, lastOp, cycled, input, series, chart>>

NextEngine == ProjectAndDisplay

SpecEngine == InitEngine /\ [][NextEngine]_vars

(***************************************************************************)
(* The renderers, exercised on every series of a bounded set.              *)
(***************************************************************************)
MaxSeriesLen == 3

SeriesValues == {Num(0), Num(1), Num(2)}

SeriesInputs ==
    UNION {[labels : {[k \in 1..n |-> Label(k - 1)]},
            nominalData : [1..n -> SeriesValues],
            realData : [1..n -> SeriesValues]] : n \in 1..MaxSeriesLen}

InitChart ==
    /\ InitPage
    /\ resultsDisplay = "none"
    /\ input = NoInput
    /\ series \in SeriesInputs

RenderIncome ==
    /\ chart = << >>
    /\ chart' = <<[kind |-> "income",
                   rendering |-> renderIncomeChart(series.labels, series.nominalData,
                                                   series.realData)]>>
    /\ UNCHANGED <<form, resultsDisplay, engineCall, timers, timeout, nextId, cleared, runs,
                   calls, lastOp, cycled, input, output, series>>

RenderSavings ==
    /\ chart = << >>
    /\ chart' = <<[kind |-> "savings",
                   rendering |-> renderSavingsChart(series.labels, series.realData)]>>
    /\ UNCHANGED <<form, resultsDisplay, engineCall, timers, timeout, nextId, cleared, runs,
                   calls, lastOp, cycled, input, output, series>>

NextChart == RenderIncome \/ RenderSavings

SpecChart == InitChart /\ [][NextChart]_vars

(***************************************************************************)
(* Properties of the engine and of what follows it (SpecEngine, SpecChart) *)
(***************************************************************************)
Rows(results) == 1..Len(results.years)

NonNegativeInteger(x) == IsInteger(x) /\ x.n >= 0

\* C3: with monthlyIncome = 0 the engine returns a defined (finite) value for
\* purchasingPowerChange, and the percentage updateMetrics writes is finite.
C3_ZeroIncomeGuard ==
    (output # << >> /\ IsZero(input.monthlyIncome)) =>
        /\ IsFinite(output[1].results.purchasingPowerChange)
        /\ IsFinite(output[1].metrics.purchasingPowerChange.percent)

ShapeOf(results, data) ==
    /\ Len(results.years) = data.years + 1
    /\ Len(results.nominalIncome) = data.years + 1
    /\ Len(results.realIncome) = data.years + 1
    /\ Len(results.realSavings) = data.years + 1
    /\ results.years[1] = [text |-> "Now", num |-> 0]
    /\ \A i \in 1..data.years : results.years[i + 1] = [text |-> "Year", num |-> i]
    /\ results.finalRealSavings = results.realSavings[data.years + 1]

AllNonNegativeIntegers(results) ==
    \A k \in Rows(results) :
        /\ NonNegativeInteger(results.nominalIncome[k])
        /\ NonNegativeInteger(results.realIncome[k])
        /\ NonNegativeInteger(results.realSavings[k])

C7_ZeroInflation ==
    (output # << >> /\ IsZero(input.inflationRate)) =>
        /\ \A k \in Rows(output[1].results) :
              /\ output[1].results.realIncome[k] = output[1].results.nominalIncome[k]
              /\ output[1].results.realSavings[k] = input.currentSavings
        /\ IsZero(output[1].results.totalPurchasingPowerLoss)

\* C7 as amended: with inflationRate = 0, realIncome[i] = nominalIncome[i] and
\* realSavings[i] = currentSavings rounded to the nearest integer for every i,
\* and totalPurchasingPowerLoss = 0.
C7_ZeroInflationAmended ==
    (output # << >> /\ IsZero(input.inflationRate)) =>
        /\ \A k \in Rows(output[1].results) :
              /\ output[1].results.realIncome[k] = output[1].results.nominalIncome[k]
              /\ output[1].results.realSavings[k] = MathRound(input.currentSavings)
        /\ IsZero(output[1].results.totalPurchasingPowerLoss)

C7_Witness ==
    /\ output # << >>
    /\ IsZero(input.inflationRate)
    /\ input.incomeGrowth = Num(5)
    /\ input.currentSavings = Norm(3, 2)
    /\ input.years = 2
    /\ output[1].results.realSavings = <<Num(2), Num(2), Num(2)>>

\* C8: with inflationRate > 0 and currentSavings > 0 the rounded realSavings
\* sequence never increases, and it starts at currentSavings rounded.
C8_SavingsMonotone ==
    (/\ output # << >>
     /\ Gt(input.inflationRate, Num(0))
     /\ Gt(input.currentSavings, Num(0))) =>
        /\ \A k \in 1..input.years :
              Ge(output[1].results.realSavings[k], output[1].results.realSavings[k + 1])
        /\ output[1].results.realSavings[1] = MathRound(input.currentSavings)

C8_Witness ==
    /\ output # << >>
    /\ input.inflationRate = Num(100)
    /\ input.currentSavings = Norm(3, 2)
    /\ input.years = 2
    /\ output[1].results.realSavings = <<Num(2), Num(1), Num(0)>>

\* the message the claim assigns to a pair of rates
ClaimedMessage(data) ==
    IF data.inflationRate = Num(0) THEN "Great News"
    ELSE IF Gt(data.incomeGrowth, data.inflationRate) THEN "You're Winning"
    ELSE IF data.incomeGrowth = data.inflationRate THEN "Treading Water"
    ELSE "Purchasing Power Loss"

ClaimedClass(message) ==
    IF message \in {"Great News", "You're Winning"} THEN "success"
    ELSE IF message = "Treading Water" THEN "warning" ELSE "danger"

\* C9: the insight is one of the four messages, chosen by the two rates alone:
\* zero inflation; else growth above, equal to, or below inflation.  Growth 5
\* against inflation 3 is "winning" whatever the horizon, income and savings.
C9_InsightClassification ==
    output # << >> =>
        /\ output[1].insights.message = ClaimedMessage(input)
        /\ output[1].insights.className = ClaimedClass(output[1].insights.message)
        /\ (input.incomeGrowth = Num(5) /\ input.inflationRate = Num(3))
              => output[1].insights.message = "You're Winning"

C9_Witness ==
    /\ output # << >>
    /\ input.incomeGrowth = Num(5)
    /\ input.inflationRate = Num(3)
    /\ input.years = 2
    /\ output[1].insights.message = "You're Winning"

\* C10: for every valid input, zero savings and zero income included, the
\* table's purchasing-power percent and the mapY of both charts are computed
\* without a zero divisor, and no NaN or Infinity is displayed or drawn.
C10_NoZeroDivisor ==
    output # << >> =>
        /\ \A k \in Rows(output[1].results) :
              /\ ~IsZero(output[1].table[k].ppDivisor)
              /\ IsFinite(output[1].table[k].pp)
        /\ ~IsZero(output[1].incomeChart.mapYDivisor)
        /\ ~IsZero(output[1].savingsChart.mapYDivisor)
        /\ \A k \in 1..6 :
              /\ IsFinite(output[1].incomeChart.grid[k].y)
              /\ IsFinite(output[1].savingsChart.grid[k].y)

(***************************************************************************)
(* Properties of the listeners (Spec, LiveSpec)                            *)
(***************************************************************************)
Pending(t) == {x \in timers : x.target = t}

PendingOfKind(k) == {x \in timers : Kind(x.target) = k}

EventSeen(k) == \E t \in Targets : Kind(t) = k /\ timeout[t] # 0

\* C1 as stated: within a burst of 'input' events, on whichever fields, and
\* within a burst of 'resize' events, a newer event cancels the pending
\* recompute, so at most one recompute of the kind is pending, and the burst
\* leads to exactly one call of calculateAndDisplay, after its last event.
C1_DebounceCoalescing ==
    \A k \in {"input", "resize"} :
        /\ Cardinality(PendingOfKind(k)) <= 1
        /\ PendingOfKind(k) # {} => calls[k] = 0
        /\ (PendingOfKind(k) = {} /\ EventSeen(k)) => calls[k] = 1

\* C1 as amended: each listener (one per input field, one for resize) has its
\* own timer.  A newer event on the same target cancels that target's pending
\* timer, so a target has at most one pending timer, its callback has not run
\* since the target's last event while that timer is pending, and has run
\* exactly once when it no longer is; an input callback calls
\* calculateAndDisplay only if the form is valid.
C1_DebouncePerListener ==
    /\ \A t \in Targets :
          /\ Cardinality(Pending(t)) <= 1
          /\ \A x \in Pending(t) : x.id = timeout[t] /\ runs[t] = 0
          /\ (Pending(t) = {} /\ timeout[t] # 0) => runs[t] = 1
    /\ (lastOp.op = "callback" /\ lastOp.target \in Fields)
          => (calls["input"] > 0 <=> checkValidity)

C1_Witness ==
    \E t \in Fields :
        /\ timeout[t] = 2
        /\ cleared = 1
        /\ runs[t] = 1
        /\ timers = {}
        /\ calls["input"] = 1
        /\ \A u \in Targets \ {t} : timeout[u] = 0

\* C2 as stated: the callback of every event that is not superseded performs
\* one full calculateAndDisplay cycle.
C2_RecomputeResponse ==
    lastOp.op = "callback" => cycled

CallbackCycles ==
    lastOp.op = "callback" =>
        (cycled <=> (checkValidity /\ (lastOp.target = "window" => resultsDisplay # "none")))

FullCycle ==
    cycled =>
        /\ engineCall = <<[data |-> getFormData, checked |-> TRUE]>>
        /\ resultsDisplay = "block"

\* C2 as amended: every pending timer is eventually gone: cancelled by a newer
\* event on its own target, or expired with its callback run.  The callback
\* performs one full cycle, in one step, exactly when the form is valid and,
\* for resize, the results section is not display 'none'; otherwise it changes
\* nothing on the page.
C2_RecomputeResponseAmended ==
    /\ [](CallbackCycles /\ FullCycle)
    /\ \A t \in Targets : (Pending(t) # {}) ~> (Pending(t) = {})

C2_Witness ==
    /\ lastOp = [op |-> "callback", target |-> "window"]
    /\ cycled
    /\ form["currentSavings"] = Text(Num(1))
    /\ engineCall[1].data.currentSavings = Num(1)
    /\ timers = {}

EnginePrecondition(data) ==
    /\ IsFinite(data.monthlyIncome) /\ Ge(data.monthlyIncome, Num(0))
    /\ IsFinite(data.currentSavings) /\ Ge(data.currentSavings, Num(0))
    /\ IsFinite(data.inflationRate)
    /\ IsFinite(data.incomeGrowth)
    /\ data.years >= 1

\* C5: over any sequence of submit, input and resize events, the engine is
\* called only after checkValidity returned true in the same call, and the
\* data it gets has monthlyIncome >= 0, currentSavings >= 0, years a whole
\* number >= 1 and finite rates.
C5_ValidationAtBoundary ==
    engineCall # << >> =>
        /\ engineCall[1].checked
        /\ EnginePrecondition(engineCall[1].data)

C5_Witness ==
    /\ engineCall # << >>
    /\ lastOp.op = "submit"
    /\ cycled
    /\ form["timePeriod"] = Empty
    /\ form["currentSavings"] = Text(Num(1))
    /\ engineCall[1].data.years = 10
    /\ engineCall[1].data.currentSavings = Num(1)

=============================================================================
